---- MODULE Spec2Model ----
(***************************************************************************)
(* Model of internal/api/viewsets.py: the identifier normalisers, the      *)
(* DatabaseScanner (scan_all_tables, link_foregin_keys), the QueryModel    *)
(* projections and the request handler QueryViewSet.select.                *)
(*                                                                         *)
(* A Python string is a sequence of one-character strings, so that the     *)
(* string functions of the source (lower, title, re.sub, replace, ...) are *)
(* computed character by character.  A Python dict is a sequence of        *)
(* [k, v] records in insertion order; None is the empty sequence and a     *)
(* present optional value x is <<x>>.                                      *)
(***************************************************************************)
EXTENDS Integers, Sequences, FiniteSets, TLC

VARIABLES
    pc,           \* position of the request inside QueryViewSet.select
    conn,         \* the request's database connection: "none", "open", "closed"
    unsupported,  \* introspection operations the driver does not implement
    tables,       \* sorted(table_info): raw names of the relations to scan
    ti,           \* number of tables scan_all_tables has finished
    projections,  \* DatabaseScanner.__query_projections
    qi,           \* number of projections the query loop has finished
    data,         \* the response's record list
    err,          \* the exception that left the handler, "" when none
    linkRuns,     \* completed calls of link_foregin_keys
    readsIssued,  \* reads the query loop has issued
    nIn,          \* arguments of a direct call of normalize_col_name, or of
                  \* one iteration of the table loop of scan_all_tables
    nOut          \* its result

vars == <<pc, conn, unsupported, tables, ti, projections, qi, data, err,
          linkRuns, readsIssued, nIn, nOut>>

---------------------------------------------------------------------------
(* Characters and the str methods the source uses.                         *)

LowerAlphabet == <<"a", "b", "c", "d", "e", "f", "g", "h", "i", "j", "k", "l", "m",
                   "n", "o", "p", "q", "r", "s", "t", "u", "v", "w", "x", "y", "z">>

UpperAlphabet == <<"A", "B", "C", "D", "E", "F", "G", "H", "I", "J", "K", "L", "M",
                   "N", "O", "P", "Q", "R", "S", "T", "U", "V", "W", "X", "Y", "Z">>

DigitAlphabet == <<"0", "1", "2", "3", "4", "5", "6", "7", "8", "9">>

Range(s) == {s[i] : i \in 1..Len(s)}

IndexIn(c, s) == CHOOSE i \in 1..Len(s) : s[i] = c

IsLower(c) == c \in Range(LowerAlphabet)

IsUpper(c) == c \in Range(UpperAlphabet)

IsDigit(c) == c \in Range(DigitAlphabet)

IsCased(c) == IsLower(c) \/ IsUpper(c)

\* [a-zA-Z0-9]
IsAlnum(c) == IsCased(c) \/ IsDigit(c)

\* \w
IsWord(c) == IsAlnum(c) \/ c = "_"

LowerCh(c) == IF IsUpper(c) THEN LowerAlphabet[IndexIn(c, UpperAlphabet)] ELSE c

UpperCh(c) == IF IsLower(c) THEN UpperAlphabet[IndexIn(c, LowerAlphabet)] ELSE c

\* The code point of a character, which Python's sorted() compares.
Ord(c) ==
    CASE IsDigit(c) -> 47 + IndexIn(c, DigitAlphabet)
      [] IsUpper(c) -> 64 + IndexIn(c, UpperAlphabet)
      [] IsLower(c) -> 96 + IndexIn(c, LowerAlphabet)
      [] c = "_" -> 95
      [] c = "-" -> 45
      [] c = " " -> 32
      [] OTHER -> 36

\* str.lower()
Lower(s) == [i \in 1..Len(s) |-> LowerCh(s[i])]

\* str.title(): a cased character is upper-cased when the character before it
\* is not cased (or it is the first), lower-cased otherwise.
Title(s) ==
    [i \in 1..Len(s) |->
        IF i > 1 /\ IsCased(s[i - 1]) THEN LowerCh(s[i]) ELSE UpperCh(s[i])]

StartsWith(s, p) == Len(s) >= Len(p) /\ SubSeq(s, 1, Len(p)) = p

EndsWith(s, p) == Len(s) >= Len(p) /\ SubSeq(s, Len(s) - Len(p) + 1, Len(s)) = p

\* s.find(p) >= 0
Contains(s, p) ==
    \E i \in 1..(Len(s) - Len(p) + 1) : SubSeq(s, i, i + Len(p) - 1) = p

\* x in list
InList(x, l) == \E i \in 1..Len(l) : l[i] = x

\* "%d" % n
RECURSIVE IntToStr(_)
IntToStr(n) ==
    IF n < 10 THEN <<DigitAlphabet[n + 1]>>
    ELSE IntToStr(n \div 10) \o <<DigitAlphabet[(n % 10) + 1]>>

\* Lexicographic order of two strings by code point (str.__lt__).
RECURSIVE StrLess(_, _)
StrLess(a, b) ==
    IF Len(b) = 0 THEN FALSE
    ELSE IF Len(a) = 0 THEN TRUE
    ELSE IF Ord(a[1]) # Ord(b[1]) THEN Ord(a[1]) < Ord(b[1])
    ELSE StrLess(Tail(a), Tail(b))

\* sorted(S) of a set of strings.
RECURSIVE Sorted(_)
Sorted(S) ==
    IF S = {} THEN <<>>
    ELSE LET m == CHOOSE x \in S : \A y \in S \ {x} : StrLess(x, y)
         IN  <<m>> \o Sorted(S \ {m})

---------------------------------------------------------------------------
(* dict: a sequence of [k, v] in insertion order.                          *)

Keys(d) == [i \in 1..Len(d) |-> d[i].k]

HasKey(d, k) == \E i \in 1..Len(d) : d[i].k = k

\* d[k]
Get(d, k) == d[CHOOSE i \in 1..Len(d) : d[i].k = k].v

\* d[k] = v: a key already present keeps its place.
Put(d, k, v) ==
    IF HasKey(d, k)
    THEN [i \in 1..Len(d) |-> IF d[i].k = k THEN [k |-> k, v |-> v] ELSE d[i]]
    ELSE Append(d, [k |-> k, v |-> v])

---------------------------------------------------------------------------
(* normalize_table_name and normalize_col_name.                            *)

\* re.sub(r"[^a-zA-Z0-9]", "", table_name.title())
normalize_table_name(table_name) == SelectSeq(Title(table_name), IsAlnum)

LOOKUP_SEP == <<"_", "_">>

\* keyword.kwlist
Keywords ==
    {<<"F", "a", "l", "s", "e">>, <<"N", "o", "n", "e">>, <<"T", "r", "u", "e">>,
     <<"a", "n", "d">>, <<"a", "s">>, <<"a", "s", "s", "e", "r", "t">>,
     <<"a", "s", "y", "n", "c">>, <<"a", "w", "a", "i", "t">>,
     <<"b", "r", "e", "a", "k">>, <<"c", "l", "a", "s", "s">>,
     <<"c", "o", "n", "t", "i", "n", "u", "e">>, <<"d", "e", "f">>,
     <<"d", "e", "l">>, <<"e", "l", "i", "f">>, <<"e", "l", "s", "e">>,
     <<"e", "x", "c", "e", "p", "t">>, <<"f", "i", "n", "a", "l", "l", "y">>,
     <<"f", "o", "r">>, <<"f", "r", "o", "m">>, <<"g", "l", "o", "b", "a", "l">>,
     <<"i", "f">>, <<"i", "m", "p", "o", "r", "t">>, <<"i", "n">>, <<"i", "s">>,
     <<"l", "a", "m", "b", "d", "a">>, <<"n", "o", "n", "l", "o", "c", "a", "l">>,
     <<"n", "o", "t">>, <<"o", "r">>, <<"p", "a", "s", "s">>,
     <<"r", "a", "i", "s", "e">>, <<"r", "e", "t", "u", "r", "n">>,
     <<"t", "r", "y">>, <<"w", "h", "i", "l", "e">>, <<"w", "i", "t", "h">>,
     <<"y", "i", "e", "l", "d">>}

iskeyword(s) == s \in Keywords

\* new_name.replace(LOOKUP_SEP, "_"): one pass, left to right, not overlapping.
RECURSIVE ReplaceSep(_)
ReplaceSep(s) ==
    IF Len(s) < 2 THEN s
    ELSE IF s[1] = "_" /\ s[2] = "_"
         THEN <<"_">> \o ReplaceSep(SubSeq(s, 3, Len(s)))
         ELSE <<s[1]>> \o ReplaceSep(Tail(s))

\* while new_name.find(LOOKUP_SEP) >= 0: new_name = new_name.replace(...)
RECURSIVE CollapseSep(_)
CollapseSep(s) == IF Contains(s, LOOKUP_SEP) THEN CollapseSep(ReplaceSep(s)) ELSE s

\* The smallest num with "%s_%d" % (new_name, num) not in used_column_names.
RECURSIVE FirstFreeNum(_, _, _)
FirstFreeNum(new_name, used_column_names, num) ==
    IF InList(new_name \o <<"_">> \o IntToStr(num), used_column_names)
    THEN FirstFreeNum(new_name, used_column_names, num + 1)
    ELSE num

\* normalize_col_name, statement by statement.  Each step maps the function's
\* locals [raised, name, db_column, notes] to their values after it: raised
\* is the exception the call ends with ("" when none), name is new_name,
\* db_column is field_params.get("db_column"), notes lists the causes of the
\* field_notes appended so far.

\* Lines 52-54.
LowerStep(col_name) ==
    [raised |-> "", name |-> Lower(col_name), db_column |-> <<>>,
     notes |-> IF Lower(col_name) # col_name THEN <<"lowercase">> ELSE <<>>]

\* Lines 56-60.
RelationStep(st, col_name, is_relation) ==
    IF ~is_relation THEN st
    ELSE IF EndsWith(st.name, <<"_", "i", "d">>)
    THEN [st EXCEPT !.name = SubSeq(st.name, 1, Len(st.name) - 3)]
    ELSE [st EXCEPT !.db_column = <<col_name>>]

\* Lines 62-64: re.subn(r"\W", "_", new_name).
SubnStep(st) ==
    [st EXCEPT !.name = [i \in 1..Len(st.name) |->
                            IF IsWord(st.name[i]) THEN st.name[i] ELSE "_"],
               !.notes = IF \E i \in 1..Len(st.name) : ~IsWord(st.name[i])
                         THEN Append(st.notes, "unsuitable") ELSE st.notes]

\* Lines 66-73.
LookupSepStep(st, col_name) ==
    IF ~Contains(st.name, LOOKUP_SEP) THEN st
    ELSE [st EXCEPT !.name = CollapseSep(st.name),
                    !.notes = IF Contains(Lower(col_name), LOOKUP_SEP)
                              THEN Append(st.notes, "double_underscore")
                              ELSE st.notes]

\* Lines 75-77.
LeadingStep(st) ==
    IF ~StartsWith(st.name, <<"_">>) THEN st
    ELSE [st EXCEPT !.name = <<"f", "i", "e", "l", "d">> \o st.name,
                    !.notes = Append(st.notes, "leading_underscore")]

\* Lines 79-81.
TrailingStep(st) ==
    IF ~EndsWith(st.name, <<"_">>) THEN st
    ELSE [st EXCEPT !.name = st.name \o <<"f", "i", "e", "l", "d">>,
                    !.notes = Append(st.notes, "trailing_underscore")]

\* Lines 83-85.
KeywordStep(st) ==
    IF ~iskeyword(st.name) THEN st
    ELSE [st EXCEPT !.name = st.name \o <<"_", "f", "i", "e", "l", "d">>,
                    !.notes = Append(st.notes, "reserved")]

\* Lines 87-89: new_name[0] raises IndexError on the empty string.
DigitStep(st) ==
    IF Len(st.name) = 0 THEN [st EXCEPT !.raised = "IndexError"]
    ELSE IF ~IsDigit(st.name[1]) THEN st
    ELSE [st EXCEPT !.name = <<"n", "u", "m", "b", "e", "r", "_">> \o st.name,
                    !.notes = Append(st.notes, "digit")]

\* Lines 91-96.
ConflictStep(st, used_column_names) ==
    IF st.raised # "" \/ ~InList(st.name, used_column_names) THEN st
    ELSE [st EXCEPT !.name = st.name \o <<"_">>
                             \o IntToStr(FirstFreeNum(st.name, used_column_names, 0)),
                    !.notes = Append(st.notes, "conflict")]

\* Lines 98-99.
DbColumnStep(st, col_name) ==
    IF st.raised = "" /\ col_name # st.name /\ Len(st.notes) > 0
    THEN [st EXCEPT !.db_column = <<col_name>>]
    ELSE st

normalize_col_name(col_name, used_column_names, is_relation) ==
    DbColumnStep(
        ConflictStep(
            DigitStep(KeywordStep(TrailingStep(LeadingStep(
                LookupSepStep(
                    SubnStep(RelationStep(LowerStep(col_name), col_name, is_relation)),
                    col_name))))),
            used_column_names),
        col_name)

---------------------------------------------------------------------------
(* get_field_type, QueryPrimitiveFieldModel, QueryForeginModel, QueryModel. *)

\* The keys of FIELD_MAPPING_CLASS.
FIELD_MAPPING_CLASS ==
    {"CharField", "IntegerField", "BooleanField", "DateTimeField", "ForeignKey",
     "AutoField", "BigAutoField", "TextField"}

\* issubclass(FIELD_MAPPING_CLASS[t], models.ForeignKey)
IsForeignKeyClass(t) == t = "ForeignKey"

\* connection.introspection.get_field_type(row.type_code, row): the driver's
\* reverse type table; a code it does not hold raises KeyError.
DriverFieldType(type_code) ==
    CASE type_code = "serial" -> "AutoField"
      [] type_code = "varchar" -> "CharField"
      [] type_code = "int4" -> "IntegerField"
      [] type_code = "numeric" -> "DecimalField"
      [] OTHER -> "KeyError"

\* get_field_type: the field type name (its size, collation and precision
\* parameters are not modelled: nothing the model states reads them).
get_field_type(row) ==
    IF DriverFieldType(row.type_code) = "KeyError"
    THEN "TextField"
    ELSE DriverFieldType(row.type_code)

\* QueryPrimitiveFieldModel.__init__: [raised, value].
QueryPrimitiveFieldModel(field_type, options) ==
    IF field_type \notin FIELD_MAPPING_CLASS
    THEN [raised |-> "ValueError", value |-> <<>>]
    ELSE [raised |-> "",
          value |-> <<[field_type |-> field_type, options |-> options]>>]

\* QueryForeginModel.__init__: [raised, value]; "to" is __options.get("to").
QueryForeginModel(rel_type, rel_to, db_column, ref_db_column) ==
    IF rel_type \notin FIELD_MAPPING_CLASS \/ ~IsForeignKeyClass(rel_type)
    THEN [raised |-> "ValueError", value |-> <<>>]
    ELSE [raised |-> "",
          value |-> <<[rel_type |-> rel_type, rel_to |-> rel_to,
                       db_column |-> db_column, to_field |-> ref_db_column,
                       to |-> <<>>, serializer |-> <<>>]>>]

\* QueryModel.__init__
QueryModel(model_name, table_name) ==
    [model_name |-> model_name, table_name |-> table_name,
     foregin |-> <<>>, primitive |-> <<>>]

add_query_foregin_model(qm, field_name, query_foregin_model) ==
    [qm EXCEPT !.foregin = Put(@, field_name, query_foregin_model)]

add_query_primitive_field_model(qm, field_name, query_primitive_model) ==
    [qm EXCEPT !.primitive = Put(@, field_name, query_primitive_model)]

get_query_foregin_models_fields(qm) == Keys(qm.foregin)

\* QueryForeginModel.make_field: None unless update_foregin_model has run.
make_field(foregin_field) ==
    IF foregin_field.to = <<>>
    THEN <<>>
    ELSE <<[kind |-> "relation", field_type |-> foregin_field.rel_type,
            to |-> foregin_field.to]>>

\* QueryModel.__get_fields: the primitive fields, then the foreign fields
\* that make_field yields, assigned into one dict.
RECURSIVE PrimitiveFieldsInto(_, _, _)
PrimitiveFieldsInto(fields, primitive, i) ==
    IF i > Len(primitive) THEN fields
    ELSE PrimitiveFieldsInto(
            Put(fields, primitive[i].k,
                [kind |-> "column", field_type |-> primitive[i].v.field_type,
                 to |-> <<>>]),
            primitive, i + 1)

RECURSIVE ForeginFieldsInto(_, _, _)
ForeginFieldsInto(fields, foregin, i) ==
    IF i > Len(foregin) THEN fields
    ELSE ForeginFieldsInto(
            IF make_field(foregin[i].v) # <<>>
            THEN Put(fields, foregin[i].k, make_field(foregin[i].v)[1])
            ELSE fields,
            foregin, i + 1)

get_fields(qm) ==
    ForeginFieldsInto(PrimitiveFieldsInto(<<>>, qm.primitive, 1), qm.foregin, 1)

\* QueryModel.get_django_model: the class built by type(...).
get_django_model(qm) ==
    [name |-> qm.model_name, db_table |-> qm.table_name, fields |-> get_fields(qm)]

\* QueryModel.__get_serializer_fields: (fields_to_serialize, serializer_fields)
RECURSIVE SerializerFieldsFrom(_, _, _)
SerializerFieldsFrom(acc, foregin, i) ==
    IF i > Len(foregin) THEN acc
    ELSE SerializerFieldsFrom(
            IF foregin[i].v.serializer # <<>>
            THEN [names |-> Append(acc.names, foregin[i].k),
                  declared |-> Put(acc.declared, foregin[i].k,
                                   foregin[i].v.serializer[1])]
            ELSE acc,
            foregin, i + 1)

get_serializer_fields(qm) ==
    SerializerFieldsFrom([names |-> Keys(qm.primitive), declared |-> <<>>],
                         qm.foregin, 1)

\* QueryModel.get_drf_serializer: the ModelSerializer class built by type(...).
get_drf_serializer(qm, model_cls) ==
    [model |-> model_cls,
     fields |-> get_serializer_fields(qm).names,
     declared |-> get_serializer_fields(qm).declared]

---------------------------------------------------------------------------
(* Bounds of the model and the finite sets the driver's answers come from. *)

MaxTables == 2

MaxCols == 2

MaxRows == 1

MaxUnsupported == 1

MaxLen == 3

\* Raw names of relations the data source may hold.
TablePool == {<<"A">>, <<"_", "b">>, <<"a">>}

\* Kinds get_table_list reports ("f" is a kind scan_all_tables leaves out).
KindPool == {"t", "p", "v", "f"}

\* Rows get_table_description may report: column name and driver type code.
ColumnPool ==
    {[name |-> <<"i", "d">>, type_code |-> "serial"],
     [name |-> <<"x">>, type_code |-> "varchar"],
     [name |-> <<"x", "_", "i", "d">>, type_code |-> "oid"],
     [name |-> <<"_", "i", "d">>, type_code |-> "numeric"]}

\* The column every modelled foreign key references.
RefColumn == <<"i", "d">>

IntrospectionOps ==
    {"get_table_list", "get_table_description", "get_primary_key_columns",
     "get_constraints", "get_relations"}

\* Column descriptions of one table: distinct names, in driver order.
RowSeqs ==
    {rows \in UNION {[1..n -> ColumnPool] : n \in 0..MaxCols} :
        \A i, j \in 1..Len(rows) : i # j => rows[i].name # rows[j].name}

\* Answers of get_relations for a table with these rows: per column, no
\* foreign key (<<>>) or the referenced table (<<table>>).
RelationChoices(rows) == [1..Len(rows) -> {<<>>} \cup {<<t>> : t \in TablePool}]

RECURSIVE RelationsDict(_, _, _)
RelationsDict(rows, choice, i) ==
    IF i > Len(rows) THEN <<>>
    ELSE (IF choice[i] = <<>> THEN <<>>
          ELSE <<[k |-> rows[i].name,
                  v |-> [column |-> RefColumn, table |-> choice[i][1]]]>>)
         \o RelationsDict(rows, choice, i + 1)

\* Answers of get_primary_key_columns: none, the first column, or a
\* composite key of the first two.
PrimaryKeyChoices(rows) ==
    {<<>>} \cup (IF Len(rows) >= 1 THEN {<<rows[1].name>>} ELSE {})
           \cup (IF Len(rows) >= 2 THEN {<<rows[1].name, rows[2].name>>} ELSE {})

\* Answers of get_constraints: no constraint, a unique constraint on the
\* last column, an index on it that is not unique, or a unique constraint
\* over two columns.
ConstraintChoices(rows) ==
    {<<>>}
    \cup (IF Len(rows) >= 1
          THEN {<<[columns |-> <<rows[Len(rows)].name>>, unique |-> TRUE]>>,
                <<[columns |-> <<rows[Len(rows)].name>>, unique |-> FALSE]>>}
          ELSE {})
    \cup (IF Len(rows) >= 2
          THEN {<<[columns |-> <<rows[1].name, rows[2].name>>, unique |-> TRUE]>>}
          ELSE {})

---------------------------------------------------------------------------
(* DatabaseScanner.                                                        *)

\* __get_table_primary_key_column_name: the first column or None; the
\* driver's NotImplementedError is not caught.
get_table_primary_key_column_name(unsup, primary_key_columns) ==
    IF "get_primary_key_columns" \in unsup
    THEN [raised |-> "NotImplementedError", value |-> <<>>]
    ELSE [raised |-> "",
          value |-> IF Len(primary_key_columns) > 0
                    THEN <<primary_key_columns[1]>> ELSE <<>>]

\* __get_table_relations: {} when the driver raises NotImplementedError.
get_table_relations(unsup, relations) ==
    IF "get_relations" \in unsup THEN <<>> ELSE relations

\* __get_unique_columns: the single-column unique constraints; no
\* constraints when the driver raises NotImplementedError.
get_unique_columns(unsup, constraints) ==
    LET cs == IF "get_constraints" \in unsup THEN <<>> ELSE constraints
        kept == SelectSeq(cs, LAMBDA c : c.unique /\ Len(c.columns) = 1)
    IN  [i \in 1..Len(kept) |-> kept[i].columns[1]]

\* Lines 423-499 for one row, after normalize_col_name returned norm:
\* [raised, qm, used], the exception if one is raised, the model and
\* used_column_names after the row.
ScanRowWith(table, row, relations, primary_key_column, unique_columns, used_column_names, query_model, norm, is_pk, is_unique) ==
    IF norm.raised # ""
    THEN [raised |-> norm.raised, qm |-> query_model, used |-> used_column_names]
    ELSE IF HasKey(relations, row.name)
    THEN LET ref      == Get(relations, row.name)
             rel_type == IF is_unique \/ is_pk THEN "OneToOneField" ELSE "ForeignKey"
             rel_to   == IF ref.table = table
                         THEN <<"s", "e", "l", "f">>
                         ELSE normalize_table_name(ref.table)
             foregin  == QueryForeginModel(rel_type, rel_to, row.name, ref.column)
         IN  IF foregin.raised # ""
             THEN [raised |-> foregin.raised, qm |-> query_model,
                   used |-> used_column_names]
             ELSE [raised |-> "",
                   qm |-> add_query_foregin_model(query_model, norm.name,
                                                  foregin.value[1]),
                   used |-> Append(used_column_names, norm.name)]
    ELSE LET primitive == QueryPrimitiveFieldModel(
                              get_field_type(row),
                              [db_column |-> norm.db_column, primary_key |-> is_pk,
                               unique |-> is_unique])
         IN  IF primitive.raised # ""
             THEN [raised |-> primitive.raised, qm |-> query_model,
                   used |-> used_column_names]
             ELSE [raised |-> "",
                   qm |-> add_query_primitive_field_model(query_model, row.name,
                                                          primitive.value[1]),
                   used |-> Append(used_column_names, norm.name)]

\* Lines 407-499 for one row.
ScanRow(table, row, relations, primary_key_column, unique_columns, used_column_names, query_model) ==
    ScanRowWith(table, row, relations, primary_key_column, unique_columns,
                used_column_names, query_model,
                normalize_col_name(row.name, used_column_names,
                                   HasKey(relations, row.name)),
                primary_key_column = <<row.name>>,
                primary_key_column # <<row.name>> /\ InList(row.name, unique_columns))

\* The loop over get_table_description (lines 403-499), from row i on:
\* [raised, qm, used].
RECURSIVE ScanRows(_, _, _, _, _, _, _)
RECURSIVE ScanRowsAfter(_, _, _, _, _, _, _)
ScanRowsAfter(table, rows, i, relations, primary_key_column, unique_columns, r) ==
    IF r.raised # "" THEN r
    ELSE ScanRows(table, rows, i + 1, relations, primary_key_column,
                  unique_columns, r)

ScanRows(table, rows, i, relations, primary_key_column, unique_columns, r) ==
    IF i > Len(rows) THEN r
    ELSE ScanRowsAfter(table, rows, i, relations, primary_key_column,
                       unique_columns,
                       ScanRow(table, rows[i], relations, primary_key_column,
                               unique_columns, r.used, r.qm))

\* Lines 390-499 once the primary-key lookup returned pk.
ScanOneTableWith(unsup, table, pk, constraints, relations, rows) ==
    IF pk.raised # ""
    THEN [raised |-> pk.raised, qm |-> <<>>, used |-> <<>>]
    ELSE IF "get_table_description" \in unsup
    THEN [raised |-> "NotImplementedError", qm |-> <<>>, used |-> <<>>]
    ELSE ScanRows(table, rows, 1, get_table_relations(unsup, relations),
                  pk.value, get_unique_columns(unsup, constraints),
                  [raised |-> "",
                   qm |-> QueryModel(normalize_table_name(table), table),
                   used |-> <<>>])

\* One iteration of the loop over the sorted table names (lines 386-501):
\* [raised, qm, used] for the driver's answers about this table.
ScanOneTable(unsup, table, primary_key_columns, constraints, relations, rows) ==
    ScanOneTableWith(unsup, table,
                     get_table_primary_key_column_name(unsup, primary_key_columns),
                     constraints, relations, rows)

\* What the driver may answer about one table: its column descriptions, its
\* primary-key columns, its constraints and its foreign keys.
TableAnswers ==
    UNION {
        {[rows |-> rows, primary_key_columns |-> pkc, constraints |-> cons,
          relations |-> RelationsDict(rows, choice, 1)] :
            pkc \in PrimaryKeyChoices(rows), cons \in ConstraintChoices(rows),
            choice \in RelationChoices(rows)} :
        rows \in RowSeqs}

UnsupportedChoices ==
    {u \in SUBSET IntrospectionOps : Cardinality(u) <= MaxUnsupported}

\* The results of one loop iteration: for every driver, table and answer of
\* the driver about that table, what lines 386-501 end with.
ScanOutcomes ==
    UNION {
        {[unsupported |-> ut[1], table |-> ut[2],
          result |-> ScanOneTable(ut[1], ut[2], a.primary_key_columns,
                                  a.constraints, a.relations, a.rows)] :
            a \in TableAnswers} :
        ut \in UnsupportedChoices \X TablePool}

\* link_foregin_keys, from foreign field j of the i-th projection on.  The
\* projections are linked in place, so a target is snapshotted as it is when
\* the loop reaches the field that refers to it.
RECURSIVE LinkFrom(_, _, _)
LinkFrom(P, i, j) ==
    IF i > Len(P) THEN P
    ELSE IF j > Len(P[i].v.foregin) THEN LinkFrom(P, i + 1, 1)
    ELSE
    LET foregin_model_name == P[i].v.foregin[j].v.rel_to
    IN  IF HasKey(P, foregin_model_name)
        THEN LET model        == Get(P, foregin_model_name)
                 django_model == get_django_model(model)
             IN  LinkFrom(
                    [P EXCEPT ![i].v.foregin[j].v.to = <<django_model>>,
                              ![i].v.foregin[j].v.serializer =
                                  <<get_drf_serializer(model, django_model)>>],
                    i, j + 1)
        ELSE LinkFrom(P, i, j + 1)

link_foregin_keys(P) == LinkFrom(P, 1, 1)

---------------------------------------------------------------------------
(* QueryViewSet.select.                                                    *)

\* QuerySet.select_related(*related_fields) evaluates only when every name
\* is a relation field of the model; otherwise Django raises FieldError.
select_related_ok(django_model, related_fields) ==
    \A i \in 1..Len(related_fields) :
        /\ HasKey(django_model.fields, related_fields[i])
        /\ Get(django_model.fields, related_fields[i]).kind = "relation"

\* serializer(...).data for one row: a column's value is <<>>, a declared
\* nested serializer's record is <<record>>.
RECURSIVE RecordOf(_)
RECURSIVE RecordFrom(_, _, _)
RecordFrom(rec, serializer, i) ==
    IF i > Len(serializer.fields) THEN rec
    ELSE RecordFrom(
            Put(rec, serializer.fields[i],
                IF HasKey(serializer.declared, serializer.fields[i])
                THEN <<RecordOf(Get(serializer.declared, serializer.fields[i]))>>
                ELSE <<>>),
            serializer, i + 1)

RecordOf(serializer) == RecordFrom(<<>>, serializer, 1)

\* A scanner that links inside the table loop, after every table.
AfterTableLinkInLoop(scanned, n_tables) == "link"

\* Where select stands once `scanned` of `n_tables` loop iterations of
\* scan_all_tables are done: the loop goes on, or scan_all_tables returns
\* and link_foregin_keys is called.
AfterTable(scanned, n_tables) == IF scanned = n_tables THEN "link" ELSE "scan"

\* Where select stands once `queried` of `n_models` iterations of the query
\* loop are done: the loop goes on, or the with block is left.
AfterQuery(queried, n_models) == IF queried = n_models THEN "close" ELSE "query"

Fail(e) ==
    /\ pc' = "failed"
    /\ err' = e

\* Lines 507-545: look the data source up and open the cursor.
Open ==
    /\ pc = "start"
    /\ \E found \in BOOLEAN, connected \in BOOLEAN :
          IF ~found
          THEN Fail("ValueError") /\ UNCHANGED conn
          ELSE IF ~connected
          THEN Fail("OperationalError") /\ UNCHANGED conn
          ELSE pc' = "list" /\ conn' = "open" /\ UNCHANGED err
    /\ UNCHANGED <<unsupported, tables, ti, projections, qi, data, linkRuns,
                   readsIssued, nIn, nOut>>

\* Lines 383-386: get_table_list, kept kinds, sorted names.
ListTables ==
    /\ pc = "list"
    /\ IF "get_table_list" \in unsupported
       THEN Fail("NotImplementedError") /\ UNCHANGED tables
       ELSE \E names \in SUBSET TablePool :
            \E kind \in [names -> KindPool] :
               LET kept == {n \in names : kind[n] \in {"t", "p", "v"}}
               IN  /\ Cardinality(kept) <= MaxTables
                   /\ tables' = Sorted(kept)
                   /\ pc' = AfterTable(0, Cardinality(kept))
                   /\ UNCHANGED err
    /\ UNCHANGED <<conn, unsupported, ti, projections, qi, data, linkRuns,
                   readsIssued, nIn, nOut>>

\* Lines 386-501 for the next table: the driver may fail, or answer the four
\* introspection calls about it.
ScanTable ==
    /\ pc = "scan"
    /\ ti < Len(tables)
    /\ \/ Fail("OperationalError") /\ UNCHANGED <<projections, ti>>
       \/ \E o \in ScanOutcomes :
             /\ o.unsupported = unsupported
             /\ o.table = tables[ti + 1]
             /\ IF o.result.raised # ""
                THEN Fail(o.result.raised) /\ UNCHANGED <<projections, ti>>
                ELSE /\ projections' = Put(projections, o.result.qm.model_name,
                                           o.result.qm)
                     /\ ti' = ti + 1
                     /\ pc' = AfterTable(ti + 1, Len(tables))
                     /\ UNCHANGED err
    /\ UNCHANGED <<conn, unsupported, tables, qi, data, linkRuns, readsIssued,
                   nIn, nOut>>

\* Line 548.
Link ==
    /\ pc = "link"
    /\ projections' = link_foregin_keys(projections)
    /\ linkRuns' = linkRuns + 1
    /\ pc' = AfterQuery(0, Len(projections))
    /\ UNCHANGED <<conn, unsupported, tables, ti, qi, data, err, readsIssued,
                   nIn, nOut>>

\* Lines 553-569 for the next projection.
QueryStep ==
    /\ pc = "query"
    /\ qi < Len(projections)
    /\ LET query_model    == projections[qi + 1].v
           django_model   == get_django_model(query_model)
           drf_serializer == get_drf_serializer(query_model, django_model)
           related_fields == get_query_foregin_models_fields(query_model)
       IN  IF ~select_related_ok(django_model, related_fields)
           THEN Fail("FieldError") /\ UNCHANGED <<qi, data, readsIssued>>
           ELSE \E read_ok \in BOOLEAN, n \in 0..MaxRows :
                   /\ readsIssued' = readsIssued + 1
                   /\ IF ~read_ok
                      THEN Fail("OperationalError") /\ UNCHANGED <<qi, data>>
                      ELSE /\ data' = data \o
                                  [r \in 1..n |->
                                      [model |-> projections[qi + 1].k,
                                       record |-> RecordOf(drf_serializer)]]
                           /\ qi' = qi + 1
                           /\ pc' = AfterQuery(qi + 1, Len(projections))
                           /\ UNCHANGED err
    /\ UNCHANGED <<conn, unsupported, tables, ti, projections, linkRuns, nIn, nOut>>

\* Lines 627-629: db.close() and the response.
Close ==
    /\ pc = "close"
    /\ conn' = "closed"
    /\ pc' = "done"
    /\ UNCHANGED <<unsupported, tables, ti, projections, qi, data, err, linkRuns,
                   readsIssued, nIn, nOut>>

Init ==
    /\ pc = "start"
    /\ conn = "none"
    /\ unsupported \in UnsupportedChoices
    /\ tables = <<>>
    /\ ti = 0
    /\ projections = <<>>
    /\ qi = 0
    /\ data = <<>>
    /\ err = ""
    /\ linkRuns = 0
    /\ readsIssued = 0
    /\ nIn = <<>>
    /\ nOut = <<>>

Next ==
    \/ Open
    \/ ListTables
    \/ ScanTable
    \/ Link
    \/ QueryStep
    \/ Close

Spec == Init /\ [][Next]_vars

---------------------------------------------------------------------------
(* normalize_col_name called on its own.                                   *)

\* Characters of the raw column names tried.
NormAlphabet == {"i", "d", "s", "_", "1", "-", "I"}

\* used_column_names lists tried.
UsedPool ==
    {<<>>,
     <<<<"i">>>>,
     <<<<"i">>, <<"i", "_", "0">>>>,
     <<<<"i", "s", "_", "f", "i", "e", "l", "d">>, <<"n", "u", "m", "b", "e", "r", "_", "1">>>>}

NormInputs ==
    {[col_name |-> c, used_column_names |-> u, is_relation |-> r] :
        c \in UNION {[1..n -> NormAlphabet] : n \in 0..MaxLen},
        u \in UsedPool, r \in BOOLEAN}

NormInit ==
    /\ pc = "norm"
    /\ nIn \in NormInputs
    /\ nOut = <<>>
    /\ conn = "none"
    /\ unsupported = {}
    /\ tables = <<>>
    /\ ti = 0
    /\ projections = <<>>
    /\ qi = 0
    /\ data = <<>>
    /\ err = ""
    /\ linkRuns = 0
    /\ readsIssued = 0

NormCall ==
    /\ pc = "norm"
    /\ nOut' = <<normalize_col_name(nIn.col_name, nIn.used_column_names,
                                    nIn.is_relation)>>
    /\ pc' = "normed"
    /\ UNCHANGED <<conn, unsupported, tables, ti, projections, qi, data, err,
                   linkRuns, readsIssued, nIn>>

SpecNorm == NormInit /\ [][NormCall]_vars

---------------------------------------------------------------------------
(* One iteration of the table loop of scan_all_tables on its own, for a    *)
(* driver that supports every introspection operation.                     *)

ScanInputs == {[table |-> t, answers |-> a] : t \in TablePool, a \in TableAnswers}

ScanInit ==
    /\ pc = "scanning"
    /\ nIn \in ScanInputs
    /\ nOut = <<>>
    /\ conn = "none"
    /\ unsupported = {}
    /\ tables = <<>>
    /\ ti = 0
    /\ projections = <<>>
    /\ qi = 0
    /\ data = <<>>
    /\ err = ""
    /\ linkRuns = 0
    /\ readsIssued = 0

ScanCall ==
    /\ pc = "scanning"
    /\ nOut' = <<ScanOneTable(unsupported, nIn.table,
                              nIn.answers.primary_key_columns,
                              nIn.answers.constraints, nIn.answers.relations,
                              nIn.answers.rows)>>
    /\ pc' = "scanned"
    /\ UNCHANGED <<conn, unsupported, tables, ti, projections, qi, data, err,
                   linkRuns, readsIssued, nIn>>

SpecScan == ScanInit /\ [][ScanCall]_vars

---------------------------------------------------------------------------
(* Properties.                                                             *)

Models == {projections[i].v : i \in 1..Len(projections)}

Relations(qm) == {qm.foregin[j] : j \in 1..Len(qm.foregin)}

\* The relation's target table has no model in the graph.
Unresolvable(rel) == ~HasKey(projections, rel.v.rel_to)

Linked == linkRuns >= 1

\* C1: graceful omission.  Once the graph is linked, a relation whose target
\* table has no model in the graph does not make the request raise, the
\* model built for the referencing table has no relation field for it, and
\* no output record of that table nests a record under its name.
C1_GracefulOmission ==
    Linked =>
        \A qm \in Models : \A rel \in Relations(qm) :
            Unresolvable(rel) =>
                /\ err # "FieldError"
                /\ \A i \in 1..Len(get_fields(qm)) :
                      get_fields(qm)[i].k = rel.k
                          => get_fields(qm)[i].v.kind # "relation"
                /\ \A d \in 1..Len(data) :
                      data[d].model = qm.model_name =>
                          \A i \in 1..Len(data[d].record) :
                              data[d].record[i].k = rel.k
                                  => data[d].record[i].v = <<>>

\* C2: the connection opened for the request is released on every exit
\* path: no terminal state of select, normal or failed, has it still open.
C2_ConnectionReleased == pc \in {"done", "failed"} => conn # "open"

\* C3: scan-then-link barrier.  link_foregin_keys starts only when every
\* table is scanned, it runs at most once, exactly once before any read is
\* issued and before the request completes, and nothing is linked or read
\* while a table is still unscanned.
C3_ScanThenLinkBarrier ==
    /\ linkRuns <= 1
    /\ pc = "link" => ti = Len(tables) /\ linkRuns = 0
    /\ Linked => ti = Len(tables)
    /\ (readsIssued > 0 \/ pc \in {"query", "close", "done"}) => linkRuns = 1
    /\ readsIssued <= Len(projections)

\* A request over two tables that scanned both, linked once, read both and
\* completed.
C3_Witness == pc = "done" /\ Len(tables) = 2 /\ linkRuns = 1 /\ readsIssued = 2

\* No relation names the graph key of its own model.  (A reflexive relation
\* names "self"; a relation names its own model's key only when the table it
\* references is another table whose normalised name is the same.)
NoOwnKeyRelation ==
    \A qm \in Models : \A rel \in Relations(qm) : rel.v.rel_to # qm.model_name

\* C4: link_foregin_keys is idempotent: run again on the linked graph, it
\* leaves every relation's attached model and nested serializer as the first
\* run left them.  Stated for the graphs in which no relation names its own
\* model's key and no two tables share a key.
C4_LinkIdempotent ==
    (Linked /\ NoOwnKeyRelation /\ Len(projections) = Len(tables))
        => link_foregin_keys(projections) = projections

\* C5: within one model the names under which fields and relations are
\* stored are pairwise distinct, so assembling the model's field set
\* overwrites nothing: it holds one entry per column field and one per
\* attached relation.
C5_NamesDistinct ==
    \A qm \in Models :
        /\ \A a \in 1..Len(qm.primitive), b \in 1..Len(qm.foregin) :
              qm.primitive[a].k # qm.foregin[b].k
        /\ Len(get_fields(qm)) =
              Len(qm.primitive)
              + Cardinality({j \in 1..Len(qm.foregin) : qm.foregin[j].v.to # <<>>})

\* C6: the graph holds exactly one model per scanned table: as many models
\* as tables scanned so far, and each scanned table's own model.
C6_OneModelPerTable ==
    /\ Len(projections) = ti
    /\ \A i \in 1..ti : \E qm \in Models : qm.table_name = tables[i]

\* C7: a reflexive relation, recorded with the "self" sentinel, is resolved
\* by the linker to the owning table's own model: once linked it has that
\* model attached and a nested serializer.
C7_ReflexiveResolved ==
    Linked =>
        \A qm \in Models : \A rel \in Relations(qm) :
            rel.v.rel_to = <<"s", "e", "l", "f">> =>
                /\ rel.v.to # <<>>
                /\ rel.v.to[1].db_table = qm.table_name
                /\ rel.v.serializer # <<>>

\* The relations of the model stored under `key` that have a serializer.
ResolvedRelations(key) ==
    {rel \in Relations(Get(projections, key)) : rel.v.serializer # <<>>}

\* C8: exactly one join hop: a record produced for a model nests one record
\* per resolved relation, and no nested record itself holds a nested
\* relation record.  Stated for the graphs in which no relation names its own
\* model's key and no two tables share a key.
C8_OneJoinHop ==
    (NoOwnKeyRelation /\ Len(projections) = Len(tables)) =>
        \A d \in 1..Len(data) :
            /\ \A rel \in ResolvedRelations(data[d].model) :
                  \E i \in 1..Len(data[d].record) :
                      data[d].record[i].k = rel.k /\ data[d].record[i].v # <<>>
            /\ \A i \in 1..Len(data[d].record) :
                  data[d].record[i].v # <<>> =>
                      \A n \in 1..Len(data[d].record[i].v[1]) :
                          data[d].record[i].v[1][n].v = <<>>

\* C9: each introspection operation degrades on its own: a driver that does
\* not support one operation never makes the request end with the
\* NotImplementedError; the scan goes on with an empty result.
C9_IndependentDegradation ==
    unsupported # {} => ~(pc = "failed" /\ err = "NotImplementedError")

\* C10: normalize_col_name is total and yields a valid name: the call
\* returns without raising, and the name is non-empty, made of word
\* characters only, not a reserved word, not digit-leading and not in the
\* used-name list.
C10_NormalizeTotalValid ==
    pc = "normed" =>
        /\ nOut[1].raised = ""
        /\ Len(nOut[1].name) > 0
        /\ \A i \in 1..Len(nOut[1].name) : IsWord(nOut[1].name[i])
        /\ ~iskeyword(nOut[1].name)
        /\ ~IsDigit(nOut[1].name[1])
        /\ ~InList(nOut[1].name, nIn.used_column_names)

\* The column is the table's primary key as the scanner reads it: the first
\* column get_primary_key_columns reports.
IsPrimaryKeyColumn(a, name) ==
    Len(a.primary_key_columns) > 0 /\ a.primary_key_columns[1] = name

\* The column has a unique constraint of its own.
IsUniqueColumn(a, name) ==
    \E i \in 1..Len(a.constraints) :
        a.constraints[i].unique /\ a.constraints[i].columns = <<name>>

\* No column of the table is named "_id" (as a relation its name normalises
\* to the empty string, as a plain column the pool gives it a type without a
\* field class; both end the scan whatever the foreign keys are).
PlainColumnsScan(a) ==
    \A i \in 1..Len(a.rows) : a.rows[i].name # <<"_", "i", "d">>

\* C11: every column present in the table's foreign-key map is recorded in
\* the table's model as a relation, one-to-one when the column is also
\* unique or the primary key and many-to-one otherwise; building the
\* relation succeeds for both kinds and the scan of the table completes.
C11_RelationKinds ==
    (pc = "scanned" /\ PlainColumnsScan(nIn.answers)) =>
        \A i \in 1..Len(nIn.answers.rows) :
            HasKey(nIn.answers.relations, nIn.answers.rows[i].name) =>
                /\ nOut[1].raised = ""
                /\ \E rel \in Relations(nOut[1].qm) :
                      /\ rel.v.db_column = nIn.answers.rows[i].name
                      /\ rel.v.rel_type =
                            IF \/ IsPrimaryKeyColumn(nIn.answers, nIn.answers.rows[i].name)
                               \/ IsUniqueColumn(nIn.answers, nIn.answers.rows[i].name)
                            THEN "OneToOneField"
                            ELSE "ForeignKey"

\* The column is a conventionally named integer identity: named "id" and of
\* an auto-incrementing integer type.
IsConventionalIdentity(row) ==
    row.name = <<"i", "d">> /\ get_field_type(row) \in {"AutoField", "BigAutoField"}

\* C12: a primary-key column that is a conventionally named integer identity
\* is not among the model's explicit fields, and a primary-key column of any
\* other name or kind is an explicit field flagged as primary key.
C12_ImplicitIdentity ==
    (pc = "scanned" /\ nOut[1].raised = "") =>
        \A i \in 1..Len(nIn.answers.rows) :
            (/\ IsPrimaryKeyColumn(nIn.answers, nIn.answers.rows[i].name)
             /\ ~HasKey(nIn.answers.relations, nIn.answers.rows[i].name)) =>
                IF IsConventionalIdentity(nIn.answers.rows[i])
                THEN ~HasKey(nOut[1].qm.primitive, nIn.answers.rows[i].name)
                ELSE /\ HasKey(nOut[1].qm.primitive, nIn.answers.rows[i].name)
                     /\ Get(nOut[1].qm.primitive,
                            nIn.answers.rows[i].name).options.primary_key

\* C13: in the response the records are grouped by table, in ascending order
\* of the tables' normalised names (the graph keys): no record is followed
\* by a record of a table whose key sorts before its own.
C13_OutputOrder ==
    \A d \in 1..Len(data) : \A e \in (d + 1)..Len(data) :
        ~StrLess(data[e].model, data[d].model)

====
